---- MODULE Spec2Model ----
(***************************************************************************)
(* Model of the ml-service price pipeline of propchain:                    *)
(*   - PricePredictionModel (src/ml-service/model.py): load_model, train,  *)
(*     predict, _heuristic_prediction, _calculate_confidence,              *)
(*     _analyze_factors;                                                   *)
(*   - the offline training script (src/ml-service/train.py), as far as    *)
(*     it writes the artifacts load_model reads;                           *)
(*   - FeatureEngineer (src/ml-service/features.py): create_features,      *)
(*     _calculate_distances, _estimate_distances, _haversine_distance,     *)
(*     _get_avg_price_in_area.                                             *)
(*                                                                         *)
(* Numbers.  Reals are fixed point integers, exact for every value the     *)
(* model draws:                                                            *)
(*   money (price, price_min, price_max, table prices)  in 1/10 rupee;     *)
(*   price_per_sqft  is an exact fraction [num, den] of 1/10 rupee, in     *)
(*                   lowest terms; den = 0 is the inf/nan numpy yields     *)
(*                   for a division by zero;                               *)
(*   confidence      in 1/100;                                             *)
(*   distances       in 1/100 km (10 m);  road width in 1/100 m;           *)
(*   latitude, longitude in 1/10000 degree.                                *)
(* Floating point rounding is not modelled: a float product such as        *)
(* price * 0.8 is the exact product.                                       *)
(***************************************************************************)
EXTENDS Integers, Sequences, FiniteSets, TLC

VARIABLES
    model,          \* self.model of the PricePredictionModel
    scaler,         \* self.scaler
    feature_names,  \* self.feature_names
    files,          \* trained_model.pkl and scaler.pkl in the working directory
    trainPc,        \* position of a running PricePredictionModel.train call
    trainData,      \* the (X, y) that call was given
    offlinePc,      \* position of a running train.py main
    gmaps,          \* whether the FeatureEngineer holds a googlemaps client
    request,        \* the arguments of the create_features call being served
    geo,            \* what the geocoder answers to that call
    features,       \* the feature mapping of the request being served
    result          \* what predict returned, or the exception it propagated

vars == <<model, scaler, feature_names, files, trainPc, trainData, offlinePc,
          gmaps, request, geo, features, result>>

estimator == <<model, scaler, feature_names>>

----------------------------------------------------------------------------
(* Bounds of the model.                                                    *)

\* area_sqft of a mapping given to predict is 0 or AreaStep * k, k in 1..MaxAreaSteps
MaxAreaSteps == 2

\* the lower leaf of a fitted forest is k million rupees, k in -1..MaxLeafMillions
MaxLeafMillions == 1

Areas == {0} \cup {500 * k : k \in 1..MaxAreaSteps}

----------------------------------------------------------------------------
(* Dictionaries.  A Python dict is a function from its keys; an optional   *)
(* entry is drawn as a set of no or one value.                             *)

EmptyDict == [k \in {} |-> 0]

Opt(S) == {{}} \cup {{x} : x \in S}

Entry(k, s) == [x \in {k : v \in s} |-> CHOOSE v \in s : TRUE]

\* dict.get(k, d)
Get(f, k, d) == IF k \in DOMAIN f THEN f[k] ELSE d

\* Python truthiness of features.get(k): absent (None) and 0 are false
Truthy(f, k) == k \in DOMAIN f /\ f[k] # 0

----------------------------------------------------------------------------
(* Exact fractions, for price_per_sqft.                                    *)

Abs(n) == IF n < 0 THEN -n ELSE n

Sign(n) == IF n < 0 THEN -1 ELSE IF n > 0 THEN 1 ELSE 0

RECURSIVE GCD(_, _)
GCD(a, b) == IF b = 0 THEN a ELSE GCD(b, a % b)

\* n / d with d >= 0; den = 0 stands for inf (num = 1), -inf (-1) and nan (0)
Rat(n, d) ==
    IF d = 0 THEN [num |-> Sign(n), den |-> 0]
    ELSE LET g == GCD(Abs(n), d)
         IN  [num |-> n \div g, den |-> d \div g]

----------------------------------------------------------------------------
(* Estimator state.                                                        *)

FeatureNames ==
    << "area_sqft", "latitude", "longitude",
       "distance_to_city", "distance_to_highway", "distance_to_metro",
       "distance_to_school", "distance_to_hospital",
       "road_width", "electricity", "water_supply",
       "avg_price_in_area", "land_type_encoded" >>

\* StandardScaler(): no mean_ attribute until it is fitted
NewScaler == [fitted |-> FALSE, n |-> 0, mean |-> 0, scale |-> 1]

\* RandomForestRegressor(...): constructed, not fitted
NewForest ==
    [kind |-> "RandomForestRegressor", fitted |-> FALSE, n |-> 0,
     split |-> 0, lo |-> 0, hi |-> 0]

\* A training set (X, y): the number of columns of X, the mean and the
\* scale of its first column, and the forest fitted to it, a stump on the
\* first scaled column whose leaves are means of y.
Dataset(cols, mean, scale, split, lo, hi) ==
    [cols |-> cols, mean |-> mean, scale |-> scale,
     split |-> split, lo |-> lo, hi |-> hi]

NoData == Dataset(0, 0, 1, 0, 0, 0)

Leaves == {k * 10000000 : k \in (-1)..MaxLeafMillions}

\* what PricePredictionModel.train may be given: X in the 13 columns of
\* feature_names, y any series
TrainDatasets ==
    {Dataset(Len(FeatureNames), 700, 100, 0, lo, lo + 10000000) : lo \in Leaves}

\* what train.py fits: 7 columns, Price_Clean between 100000 and 10^9
FeatureColumns ==
    << "Total_Area", "BHK", "Baths", "Has_Balcony",
       "Property_Type_Encoded", "District_Encoded", "Price_per_SQFT" >>

OfflineDatasets ==
    {Dataset(Len(FeatureColumns), 700, 100, 0, 10000000, 20000000)}

\* scaler.fit_transform(X_train)
FitScaler(d) == [fitted |-> TRUE, n |-> d.cols, mean |-> d.mean, scale |-> d.scale]

\* model.fit(X_train_scaled, y_train)
FitForest(m, d) ==
    [kind |-> m.kind, fitted |-> TRUE, n |-> d.cols,
     split |-> d.split, lo |-> d.lo, hi |-> d.hi]

NoFiles == [model |-> {}, scaler |-> {}]

\* LoadModel leaving self.model as __init__ set it (None) when an artifact
\* is missing
LoadModel_LeavesNone(fs, s) ==
    IF fs.model # {} /\ fs.scaler # {}
    THEN [model  |-> CHOOSE m \in fs.model : TRUE,
          scaler |-> CHOOSE c \in fs.scaler : TRUE]
    ELSE [model |-> [kind |-> "None", fitted |-> FALSE, n |-> 0,
                     split |-> 0, lo |-> 0, hi |-> 0],
          scaler |-> s]

\* load_model: both artifacts, or a fresh forest and the constructor's scaler
LoadModel(fs, s) ==
    IF fs.model # {} /\ fs.scaler # {}
    THEN [model  |-> CHOOSE m \in fs.model : TRUE,
          scaler |-> CHOOSE c \in fs.scaler : TRUE]
    ELSE [model |-> NewForest, scaler |-> s]

\* __init__: model = None, scaler = StandardScaler(), then load_model()
Construct(fs) == LoadModel(fs, NewScaler)

\* is_loaded
is_loaded == model.kind # "None"

----------------------------------------------------------------------------
(* predict and its two branches.  A call ends in Returned(r), the dict it  *)
(* returns, or in Raised(e), the exception it lets through to its caller.  *)

NoResult == [status |-> "none"]

Raised(e) == [status |-> "raised", exc |-> e]

Returned(price, ppsf, confidence, price_min, price_max, factors) ==
    [status |-> "returned", price |-> price, price_per_sqft |-> ppsf,
     confidence |-> confidence, price_min |-> price_min,
     price_max |-> price_max, factors |-> factors]

\* base_prices of _heuristic_prediction, rupees per sqft
base_prices ==
    ("Kerala" :> ("Ernakulam" :> 3000 @@ "Thiruvananthapuram" :> 2800
                  @@ "Kozhikode" :> 2500))
    @@ ("Karnataka" :> ("Bangalore" :> 4500 @@ "Mysore" :> 2000))
    @@ ("Tamil Nadu" :> ("Chennai" :> 4000 @@ "Coimbatore" :> 2200))

\* base_prices.get(state, {}).get(district, 2000), in 1/10 rupee
HeuristicBase(f) ==
    LET state    == Get(f, "state", "Kerala")
        district == Get(f, "district", "Ernakulam")
    IN  10 * Get(Get(base_prices, state, EmptyDict), district, 2000)

\* AdjustedBase with the metro adjustment up to 10 km
AdjustedBase_MetroUpToTen(f) ==
    LET b0 == HeuristicBase(f)
        b1 == IF Get(f, "distance_to_city", 10000) < 500
              THEN (b0 * 13) \div 10 ELSE b0
        b2 == IF Get(f, "distance_to_metro", 10000) <= 1000
              THEN (b1 * 12) \div 10 ELSE b1
    IN  IF Truthy(f, "electricity") /\ Truthy(f, "water_supply")
        THEN (b2 * 11) \div 10 ELSE b2

\* AdjustedBase with the metro adjustment in an elif of the city adjustment
AdjustedBase_ElseIf(f) ==
    LET b0 == HeuristicBase(f)
        b1 == IF Get(f, "distance_to_city", 10000) < 500
              THEN (b0 * 13) \div 10
              ELSE IF Get(f, "distance_to_metro", 10000) < 200
              THEN (b0 * 12) \div 10 ELSE b0
    IN  IF Truthy(f, "electricity") /\ Truthy(f, "water_supply")
        THEN (b1 * 11) \div 10 ELSE b1

\* the base price after the proximity and infrastructure adjustments
AdjustedBase(f) ==
    LET b0 == HeuristicBase(f)
        b1 == IF Get(f, "distance_to_city", 10000) < 500
              THEN (b0 * 13) \div 10 ELSE b0
        b2 == IF Get(f, "distance_to_metro", 10000) < 200
              THEN (b1 * 12) \div 10 ELSE b1
    IN  IF Truthy(f, "electricity") /\ Truthy(f, "water_supply")
        THEN (b2 * 11) \div 10 ELSE b2

\* HeuristicPrediction with the interval of the statistical branch (+-15%)
HeuristicPrediction_StatInterval(f) ==
    IF "area_sqft" \notin DOMAIN f THEN Raised("KeyError")
    ELSE LET base_price      == AdjustedBase(f)
             predicted_price == base_price * f["area_sqft"]
         IN  Returned(predicted_price,
                      Rat(base_price, 1),
                      60,
                      (predicted_price * 85) \div 100,
                      (predicted_price * 115) \div 100,
                      ("location" :> "moderate_impact")
                      @@ ("infrastructure" :>
                            IF Truthy(f, "electricity") THEN "positive"
                            ELSE "needs_improvement")
                      @@ ("note" :> "Prediction based on market averages (model training in progress)"))

\* HeuristicPrediction returning the base price before its adjustments as
\* price_per_sqft
HeuristicPrediction_UnadjustedRate(f) ==
    IF "area_sqft" \notin DOMAIN f THEN Raised("KeyError")
    ELSE LET base_price      == AdjustedBase(f)
             predicted_price == base_price * f["area_sqft"]
         IN  Returned(predicted_price,
                      Rat(HeuristicBase(f), 1),
                      60,
                      (predicted_price * 8) \div 10,
                      (predicted_price * 12) \div 10,
                      ("location" :> "moderate_impact")
                      @@ ("infrastructure" :>
                            IF Truthy(f, "electricity") THEN "positive"
                            ELSE "needs_improvement")
                      @@ ("note" :> "Prediction based on market averages (model training in progress)"))

\* _heuristic_prediction: features['area_sqft'] is a KeyError without the key
HeuristicPrediction(f) ==
    IF "area_sqft" \notin DOMAIN f THEN Raised("KeyError")
    ELSE LET base_price      == AdjustedBase(f)
             predicted_price == base_price * f["area_sqft"]
         IN  Returned(predicted_price,
                      Rat(base_price, 1),
                      60,
                      (predicted_price * 8) \div 10,
                      (predicted_price * 12) \div 10,
                      ("location" :> "moderate_impact")
                      @@ ("infrastructure" :>
                            IF Truthy(f, "electricity") THEN "positive"
                            ELSE "needs_improvement")
                      @@ ("note" :> "Prediction based on market averages (model training in progress)"))

\* _calculate_confidence: features.get(k) is not None
CalculateConfidence(f) ==
    LET c0 == 70
        c1 == IF "distance_to_city" \in DOMAIN f THEN c0 + 10 ELSE c0
        c2 == IF "avg_price_in_area" \in DOMAIN f THEN c1 + 15 ELSE c1
    IN  IF c2 < 95 THEN c2 ELSE 95

\* _analyze_factors
AnalyzeFactors(f) ==
    ("location" :>
        IF Get(f, "distance_to_city", 10000) < 500 THEN "high_value_area"
        ELSE IF Get(f, "distance_to_city", 10000) < 1500 THEN "moderate_area"
        ELSE "peripheral_area")
    @@ Entry("metro_access",
             IF Get(f, "distance_to_metro", 10000) < 200 THEN {"excellent"} ELSE {})
    @@ Entry("infrastructure",
             IF Truthy(f, "electricity") /\ Truthy(f, "water_supply")
             THEN {"well_developed"} ELSE {})

\* FeatureVector over the columns train.py fits and persists as
\* feature_names.pkl
FeatureVector_FeatureColumns(f, names) ==
    [i \in 1..Len(FeatureColumns) |-> Get(f, FeatureColumns[i], 0)]

\* [features.get(name, 0) for name in self.feature_names]
FeatureVector(f, names) == [i \in 1..Len(names) |-> Get(f, names[i], 0)]

\* hasattr(self.scaler, 'mean_')
ScalerFitted(s) == s.fitted

\* scaler.transform(v) raises unless v has the columns the scaler was fitted on
TransformRaises(s, v) == Len(v) # s.n

\* the first column of scaler.transform(v), the one the forest reads
Transform(s, v) == (v[1] - s.mean) \div s.scale

\* model.predict(x) raises on None, on an unfitted forest and on a forest
\* fitted on another number of columns
RegressionRaises(m, v) == m.kind = "None" \/ ~m.fitted \/ Len(v) # m.n

\* model.predict(x)[0]
Regression(m, x1) == IF x1 < m.split THEN m.lo ELSE m.hi

\* the steps of the try block of predict that can raise
StatisticalRaises(m, s, names, f) ==
    LET v == FeatureVector(f, names)
    IN  \/ ~ScalerFitted(s)
        \/ TransformRaises(s, v)
        \/ RegressionRaises(m, v)
        \/ "area_sqft" \notin DOMAIN f

\* the dict the try block returns when no step raises
StatisticalResult(m, s, names, f) ==
    LET v               == FeatureVector(f, names)
        predicted_price == Regression(m, Transform(s, v))
        confidence      == CalculateConfidence(f)
        price_range     == (predicted_price * 15) \div 100
        key_factors     == AnalyzeFactors(f)
    IN  Returned(predicted_price,
                 Rat(predicted_price, f["area_sqft"]),
                 confidence,
                 predicted_price - price_range,
                 predicted_price + price_range,
                 key_factors)

\* PredictOutcome with an except clause that catches AttributeError alone
PredictOutcome_NarrowExcept(m, s, names, f) ==
    IF ~ScalerFitted(s) THEN HeuristicPrediction(f)
    ELSE IF TransformRaises(s, FeatureVector(f, names)) THEN Raised("ValueError")
    ELSE IF RegressionRaises(m, FeatureVector(f, names)) THEN Raised("NotFittedError")
    ELSE IF "area_sqft" \notin DOMAIN f THEN Raised("KeyError")
    ELSE StatisticalResult(m, s, names, f)

\* predict: the try block, and _heuristic_prediction in its except clause
PredictOutcome(m, s, names, f) ==
    IF StatisticalRaises(m, s, names, f)
    THEN HeuristicPrediction(f)
    ELSE StatisticalResult(m, s, names, f)

----------------------------------------------------------------------------
(* FeatureEngineer.                                                        *)

\* land_type_map
land_type_map ==
    "RESIDENTIAL" :> 1 @@ "COMMERCIAL" :> 2 @@ "AGRICULTURAL" :> 3
    @@ "INDUSTRIAL" :> 4

\* city_centers, <<latitude, longitude>> in 1/10000 degree
city_centers ==
    "Ernakulam" :> <<99312, 762673>>
    @@ "Thiruvananthapuram" :> <<85241, 769366>>
    @@ "Kozhikode" :> <<112588, 757804>>
    @@ "Bangalore" :> <<129716, 775946>>
    @@ "Chennai" :> <<130827, 802707>>
    @@ "Mumbai" :> <<190760, 728777>>
    @@ "Delhi" :> <<287041, 771025>>

\* avg_prices of _get_avg_price_in_area, rupees per sqft
avg_prices ==
    ("Kerala" :> ("Ernakulam" :> 2800 @@ "Thiruvananthapuram" :> 2500
                  @@ "Kozhikode" :> 2200))
    @@ ("Karnataka" :> ("Bangalore" :> 4200))
    @@ ("Tamil Nadu" :> ("Chennai" :> 3800))

\* _get_avg_price_in_area, in 1/10 rupee
GetAvgPriceInArea(district, state) ==
    10 * Get(Get(avg_prices, state, EmptyDict), district, 2000)

\* The points the model places properties, schools and hospitals at: the
\* Chennai centre, 2.84 km and 13.42 km from it.
Points == {<<130827, 802707>>, <<131000, 802900>>, <<132000, 803000>>}

\* _haversine_distance between the points of the model, in 1/100 km: the
\* formula of lines 158-167 evaluated on each pair and rounded
HaversineTable ==
    {<<130827, 802707>>, <<131000, 802900>>} :> 284
    @@ {<<130827, 802707>>, <<132000, 803000>>} :> 1342
    @@ {<<131000, 802900>>, <<132000, 803000>>} :> 1117
    @@ {<<130827, 802707>>, <<99312, 762673>>} :> 55949
    @@ {<<131000, 802900>>, <<99312, 762673>>} :> 56232
    @@ {<<132000, 803000>>, <<99312, 762673>>} :> 57013

HaversineDistance(lat1, lon1, lat2, lon2) ==
    IF <<lat1, lon1>> = <<lat2, lon2>> THEN 0
    ELSE HaversineTable[{<<lat1, lon1>>, <<lat2, lon2>>}]

\* self.city_centers.get(district, (lat, lng))
CityCenter(lat, lng, district) == Get(city_centers, district, <<lat, lng>>)

\* EstimateDistances with the highway and metro defaults exchanged
EstimateDistances_SwappedDefaults(lat, lng, district) ==
    LET city_center == CityCenter(lat, lng, district)
    IN  "distance_to_city" :>
            HaversineDistance(lat, lng, city_center[1], city_center[2])
        @@ "distance_to_highway" :> 1000
        @@ "distance_to_metro" :> 500
        @@ "distance_to_school" :> 200
        @@ "distance_to_hospital" :> 300

\* _estimate_distances
EstimateDistances(lat, lng, district) ==
    LET city_center == CityCenter(lat, lng, district)
    IN  "distance_to_city" :>
            HaversineDistance(lat, lng, city_center[1], city_center[2])
        @@ "distance_to_highway" :> 500
        @@ "distance_to_metro" :> 1000
        @@ "distance_to_school" :> 200
        @@ "distance_to_hospital" :> 300

\* What the geocoder answers to the three calls of _calculate_distances.
\* distance_matrix: the call raises, or the element's status is not OK, or
\* it is OK with a distance in metres; places_nearby: the call raises, or
\* no result, or a first result at a point.
MatrixAnswers ==
    {[kind |-> "raises", metres |-> 0], [kind |-> "not_ok", metres |-> 0],
     [kind |-> "ok", metres |-> 4200]}

PlacesAnswers ==
    {[kind |-> "raises", at |-> <<0, 0>>], [kind |-> "empty", at |-> <<0, 0>>],
     [kind |-> "found", at |-> <<131000, 802900>>]}

GeoAnswers == [matrix : MatrixAnswers, school : PlacesAnswers,
               hospital : PlacesAnswers]

\* no call is made
NoGeo == [matrix |-> [kind |-> "none", metres |-> 0],
          school |-> [kind |-> "none", at |-> <<0, 0>>],
          hospital |-> [kind |-> "none", at |-> <<0, 0>>]]

\* lines 84-96: the driving distance in km, or the great circle distance
CityDistance(lat, lng, district, answer) ==
    IF answer.kind = "ok" THEN answer.metres \div 10
    ELSE LET city_center == CityCenter(lat, lng, district)
         IN  HaversineDistance(lat, lng, city_center[1], city_center[2])

\* lines 105-111 and 120-126: the distance to the first place, or the default
PlaceDistance(lat, lng, answer, default) ==
    IF answer.kind = "found"
    THEN HaversineDistance(lat, lng, answer.at[1], answer.at[2])
    ELSE default

\* some call of the try block of _calculate_distances raises
GeoRaises(g) ==
    g.matrix.kind = "raises" \/ g.school.kind = "raises"
        \/ g.hospital.kind = "raises"

\* CalculateDistances returning before the two defaults of lines 133-134
CalculateDistances_NoDefaults(lat, lng, district, g) ==
    IF GeoRaises(g) THEN EstimateDistances(lat, lng, district)
    ELSE "distance_to_city" :> CityDistance(lat, lng, district, g.matrix)
         @@ "distance_to_school" :> PlaceDistance(lat, lng, g.school, 500)
         @@ "distance_to_hospital" :> PlaceDistance(lat, lng, g.hospital, 300)

\* CalculateDistances whose handler keeps the distances obtained before the
\* call that raised and estimates the others
CalculateDistances_KeepsPartial(lat, lng, district, g) ==
    IF GeoRaises(g)
    THEN Entry("distance_to_city",
               IF g.matrix.kind = "raises" THEN {}
               ELSE {CityDistance(lat, lng, district, g.matrix)})
         @@ Entry("distance_to_school",
               IF g.matrix.kind = "raises" \/ g.school.kind = "raises" THEN {}
               ELSE {PlaceDistance(lat, lng, g.school, 500)})
         @@ EstimateDistances(lat, lng, district)
    ELSE "distance_to_city" :> CityDistance(lat, lng, district, g.matrix)
         @@ "distance_to_school" :> PlaceDistance(lat, lng, g.school, 500)
         @@ "distance_to_hospital" :> PlaceDistance(lat, lng, g.hospital, 300)
         @@ "distance_to_highway" :> 500
         @@ "distance_to_metro" :> 1000

\* CalculateDistances with the school default of _estimate_distances when
\* the search finds nothing
CalculateDistances_SchoolDefaultTwo(lat, lng, district, g) ==
    IF GeoRaises(g) THEN EstimateDistances(lat, lng, district)
    ELSE "distance_to_city" :> CityDistance(lat, lng, district, g.matrix)
         @@ "distance_to_school" :> PlaceDistance(lat, lng, g.school, 200)
         @@ "distance_to_hospital" :> PlaceDistance(lat, lng, g.hospital, 300)
         @@ "distance_to_highway" :> 500
         @@ "distance_to_metro" :> 1000

\* _calculate_distances: the try block, its handler, lines 133-134
CalculateDistances(lat, lng, district, g) ==
    IF GeoRaises(g) THEN EstimateDistances(lat, lng, district)
    ELSE "distance_to_city" :> CityDistance(lat, lng, district, g.matrix)
         @@ "distance_to_school" :> PlaceDistance(lat, lng, g.school, 500)
         @@ "distance_to_hospital" :> PlaceDistance(lat, lng, g.hospital, 300)
         @@ "distance_to_highway" :> 500
         @@ "distance_to_metro" :> 1000

\* The arguments of create_features; road_width is a set: None or a width.
Requests ==
    [area_sqft : Areas \ {0}, at : Points,
     district : {"Chennai", "Ernakulam", "Madurai"},
     state : {"Tamil Nadu", "Kerala", "Goa"},
     land_type : {"RESIDENTIAL", "COMMERCIAL", "AGRICULTURAL", "INDUSTRIAL",
                  "PLOT"},
     road_width : Opt({0, 900}),
     electricity : BOOLEAN, water_supply : BOOLEAN]

NoRequest ==
    [area_sqft |-> 0, at |-> <<0, 0>>, district |-> "", state |-> "",
     land_type |-> "", road_width |-> {}, electricity |-> FALSE,
     water_supply |-> FALSE]

\* road_width or 6.0
RoadWidth(w) == IF w = {} \/ w = {0} THEN 600 ELSE CHOOSE x \in w : TRUE

\* lines 45-55: the direct slots
DirectFeatures(r) ==
    "area_sqft" :> r.area_sqft
    @@ "latitude" :> r.at[1]
    @@ "longitude" :> r.at[2]
    @@ "land_type_encoded" :> Get(land_type_map, r.land_type, 1)
    @@ "road_width" :> RoadWidth(r.road_width)
    @@ "electricity" :> (IF r.electricity THEN 1 ELSE 0)
    @@ "water_supply" :> (IF r.water_supply THEN 1 ELSE 0)
    @@ "state" :> r.state
    @@ "district" :> r.district

\* lines 57-66: the distances, by the client when there is one
Distances(client, r, g) ==
    IF client THEN CalculateDistances(r.at[1], r.at[2], r.district, g)
    ELSE EstimateDistances(r.at[1], r.at[2], r.district)

\* create_features; features.update(d) is d @@ features
CreateFeaturesOutcome(client, r, g) ==
    ("avg_price_in_area" :> GetAvgPriceInArea(r.district, r.state))
    @@ Distances(client, r, g)
    @@ DirectFeatures(r)

----------------------------------------------------------------------------
(* The feature mappings predict is called with directly.                   *)

FeatureMappings ==
    { Entry("area_sqft", a) @@ Entry("distance_to_city", dc)
      @@ Entry("distance_to_metro", dm) @@ Entry("electricity", el)
      @@ Entry("water_supply", ws) @@ Entry("avg_price_in_area", av)
      @@ Entry("state", st) @@ Entry("district", di) :
        a  \in Opt(Areas),
        dc \in Opt({300, 1500}),
        dm \in Opt({100}),
        el \in {{0}, {1}},
        ws \in {{0}, {1}},
        av \in Opt({38000}),
        st \in Opt({"Tamil Nadu"}),
        di \in Opt({"Chennai"}) }

----------------------------------------------------------------------------
(* Operations.                                                             *)

Init ==
    /\ files = NoFiles
    /\ model = Construct(NoFiles).model
    /\ scaler = Construct(NoFiles).scaler
    /\ feature_names = FeatureNames
    /\ trainPc = "idle"
    /\ trainData = NoData
    /\ offlinePc = "idle"
    /\ gmaps \in BOOLEAN
    /\ request = NoRequest
    /\ geo = NoGeo
    /\ features = EmptyDict
    /\ result = NoResult

\* Predict whose except clause marks the estimator untrained
Predict_ResetsScaler ==
    /\ trainPc = "idle"
    /\ request = NoRequest
    /\ result = NoResult
    /\ \E f \in FeatureMappings :
          /\ features' = f
          /\ result' = PredictOutcome(model, scaler, feature_names, f)
          /\ scaler' = IF StatisticalRaises(model, scaler, feature_names, f)
                       THEN NewScaler ELSE scaler
    /\ UNCHANGED <<model, feature_names, files, trainPc, trainData,
                   offlinePc, gmaps, request, geo>>

\* model.predict(features), app.py line 83 or any other caller
Predict ==
    /\ trainPc = "idle"
    /\ request = NoRequest
    /\ result = NoResult
    /\ \E f \in FeatureMappings :
          /\ features' = f
          /\ result' = PredictOutcome(model, scaler, feature_names, f)
    /\ UNCHANGED <<model, scaler, feature_names, files, trainPc, trainData,
                   offlinePc, gmaps, request, geo>>

\* predict_price, app.py lines 63-75: feature_engineer.create_features
CreateFeatures ==
    /\ trainPc = "idle"
    /\ request = NoRequest
    /\ result = NoResult
    /\ \E r \in Requests :
          \E g \in (IF gmaps THEN GeoAnswers ELSE {NoGeo}) :
             /\ request' = r
             /\ geo' = g
             /\ features' = CreateFeaturesOutcome(gmaps, r, g)
    /\ UNCHANGED <<model, scaler, feature_names, files, trainPc, trainData,
                   offlinePc, gmaps, result>>

\* create_features call by call.  The requests it is followed on:
StepRequests ==
    {r \in Requests : /\ r.land_type = "RESIDENTIAL"
                      /\ r.road_width = {}
                      /\ r.state = "Tamil Nadu"
                      /\ r.electricity
                      /\ r.water_supply}

\* create_features is entered: lines 45-55
BeginCreate ==
    /\ trainPc = "idle"
    /\ request = NoRequest
    /\ result = NoResult
    /\ \E r \in StepRequests : request' = r
    /\ geo' = NoGeo
    /\ UNCHANGED <<model, scaler, feature_names, files, trainPc, trainData,
                   offlinePc, gmaps, features, result>>

\* create_features has been entered and has not returned
Creating == request # NoRequest /\ features = EmptyDict

\* the geocoder ends the gmaps.distance_matrix call of line 84; the client
\* of line 9 is built with no timeout and the call is not awaited under
\* one, so the call ends when the geocoder ends it
AnswerMatrix ==
    /\ Creating
    /\ gmaps
    /\ geo.matrix.kind = "none"
    /\ \E a \in MatrixAnswers : geo' = [geo EXCEPT !.matrix = a]
    /\ UNCHANGED <<model, scaler, feature_names, files, trainPc, trainData,
                   offlinePc, gmaps, request, features, result>>

\* the geocoder ends the gmaps.places_nearby call of line 99
AnswerSchool ==
    /\ Creating
    /\ gmaps
    /\ geo.matrix.kind \in {"ok", "not_ok"}
    /\ geo.school.kind = "none"
    /\ \E a \in PlacesAnswers : geo' = [geo EXCEPT !.school = a]
    /\ UNCHANGED <<model, scaler, feature_names, files, trainPc, trainData,
                   offlinePc, gmaps, request, features, result>>

\* the geocoder ends the gmaps.places_nearby call of line 114
AnswerHospital ==
    /\ Creating
    /\ gmaps
    /\ geo.school.kind \in {"empty", "found"}
    /\ geo.hospital.kind = "none"
    /\ \E a \in PlacesAnswers : geo' = [geo EXCEPT !.hospital = a]
    /\ UNCHANGED <<model, scaler, feature_names, files, trainPc, trainData,
                   offlinePc, gmaps, request, features, result>>

\* create_features returns: without a client at once, with one when a call
\* has raised or the last call has ended
ReturnFeatures ==
    /\ Creating
    /\ \/ ~gmaps
       \/ GeoRaises(geo)
       \/ geo.hospital.kind \in {"empty", "found"}
    /\ features' = CreateFeaturesOutcome(gmaps, request, geo)
    /\ UNCHANGED <<model, scaler, feature_names, files, trainPc, trainData,
                   offlinePc, gmaps, request, geo, result>>

\* predict_price, app.py lines 82-84: model.predict(features)
PredictCreated ==
    /\ request # NoRequest
    /\ features # EmptyDict
    /\ result = NoResult
    /\ result' = PredictOutcome(model, scaler, feature_names, features)
    /\ UNCHANGED <<model, scaler, feature_names, files, trainPc, trainData,
                   offlinePc, gmaps, request, geo, features>>

\* the caller has the result, or the exception: the request is over
Respond ==
    /\ result # NoResult
    /\ request' = NoRequest
    /\ geo' = NoGeo
    /\ features' = EmptyDict
    /\ result' = NoResult
    /\ UNCHANGED <<model, scaler, feature_names, files, trainPc, trainData,
                   offlinePc, gmaps>>

\* train, lines 60-62: train_test_split
TrainSplit ==
    /\ trainPc = "idle"
    /\ result = NoResult
    /\ \E d \in TrainDatasets : trainData' = d
    /\ trainPc' = "split"
    /\ UNCHANGED <<model, scaler, feature_names, files, offlinePc, gmaps, request, geo,
                   features, result>>

\* train, lines 65-66: self.scaler.fit_transform
TrainScale ==
    /\ trainPc = "split"
    /\ scaler' = FitScaler(trainData)
    /\ trainPc' = "scaled"
    /\ UNCHANGED <<model, feature_names, files, trainData, offlinePc, gmaps, request, geo,
                   features, result>>

\* train, line 69: self.model.fit
TrainFit ==
    /\ trainPc = "scaled"
    /\ model' = FitForest(model, trainData)
    /\ trainPc' = "fitted"
    /\ UNCHANGED <<scaler, feature_names, files, trainData, offlinePc, gmaps, request, geo,
                   features, result>>

\* train, lines 72-79: score, print, joblib.dump(self.model)
TrainDumpModel ==
    /\ trainPc = "fitted"
    /\ files' = [files EXCEPT !.model = {model}]
    /\ trainPc' = "dumped"
    /\ UNCHANGED <<model, scaler, feature_names, trainData, offlinePc, gmaps, request, geo,
                   features, result>>

\* train, lines 80-82: joblib.dump(self.scaler), return
TrainDumpScaler ==
    /\ trainPc = "dumped"
    /\ files' = [files EXCEPT !.scaler = {scaler}]
    /\ trainPc' = "idle"
    /\ trainData' = NoData
    /\ UNCHANGED <<model, scaler, feature_names, offlinePc, gmaps, request, geo,
                   features, result>>

\* the step train is at raises (model.fit on a y with NaN, a full disk):
\* train has no handler, the exception leaves it with what was assigned
TrainRaise ==
    /\ trainPc # "idle"
    /\ trainPc' = "idle"
    /\ trainData' = NoData
    /\ UNCHANGED <<model, scaler, feature_names, files, offlinePc, gmaps, request, geo,
                   features, result>>

\* train.py main, lines 126-194: fit a scaler and a forest of its own on
\* feature_columns, joblib.dump(model, 'trained_model.pkl')
OfflineDumpModel ==
    /\ offlinePc = "idle"
    /\ \E d \in OfflineDatasets :
          files' = [files EXCEPT !.model = {FitForest(NewForest, d)}]
    /\ offlinePc' = "dumped"
    /\ UNCHANGED <<model, scaler, feature_names, trainPc, trainData, gmaps, request, geo,
                   features, result>>

\* train.py main, line 195: joblib.dump(scaler, 'scaler.pkl')
OfflineDumpScaler ==
    /\ offlinePc = "dumped"
    /\ \E d \in OfflineDatasets :
          files' = [files EXCEPT !.scaler = {FitScaler(d)}]
    /\ offlinePc' = "idle"
    /\ UNCHANGED <<model, scaler, feature_names, trainPc, trainData, gmaps, request, geo,
                   features, result>>

\* train.py is killed between its two dumps
OfflineKilled ==
    /\ offlinePc = "dumped"
    /\ offlinePc' = "idle"
    /\ UNCHANGED <<model, scaler, feature_names, files, trainPc, trainData,
                   gmaps, request, geo, features, result>>

\* the service process starts again: app.py line 29, PricePredictionModel()
Restart ==
    /\ model' = Construct(files).model
    /\ scaler' = Construct(files).scaler
    /\ feature_names' = FeatureNames
    /\ trainPc' = "idle"
    /\ trainData' = NoData
    /\ request' = NoRequest
    /\ geo' = NoGeo
    /\ features' = EmptyDict
    /\ result' = NoResult
    /\ UNCHANGED <<files, offlinePc, gmaps>>

Next ==
    \/ Predict
    \/ Respond
    \/ TrainSplit
    \/ TrainScale
    \/ TrainFit
    \/ TrainDumpModel
    \/ TrainDumpScaler
    \/ TrainRaise
    \/ OfflineDumpModel
    \/ OfflineDumpScaler
    \/ OfflineKilled
    \/ Restart

Spec == Init /\ [][Next]_vars

\* The request pipeline of app.py alone, on the estimator as constructed.
NextPipeline ==
    \/ CreateFeatures
    \/ PredictCreated
    \/ Respond

SpecPipeline == Init /\ [][NextPipeline]_vars

\* The request pipeline with create_features call by call.  The steps of
\* the service are taken when they can be; nothing makes the geocoder
\* answer.
NextGeocoding ==
    \/ BeginCreate
    \/ AnswerMatrix
    \/ AnswerSchool
    \/ AnswerHospital
    \/ ReturnFeatures
    \/ PredictCreated
    \/ Respond

\* Requests on the estimator as constructed: predict called directly and
\* through create_features.
NextRequests ==
    \/ Predict
    \/ CreateFeatures
    \/ PredictCreated
    \/ Respond

SpecRequests == Init /\ [][NextRequests]_vars

\* The request pipeline on an estimator PricePredictionModel.train fits:
\* the requests served while it is untrained, being trained and trained.
PipelineRequests ==
    {r \in Requests : /\ r.area_sqft = 500
                      /\ r.land_type = "RESIDENTIAL"
                      /\ r.road_width = {}
                      /\ r.state = "Tamil Nadu"
                      /\ r.water_supply}

NextTrainedPipeline ==
    \/ TrainSplit
    \/ TrainScale
    \/ TrainFit
    \/ TrainDumpModel
    \/ TrainDumpScaler
    \/ TrainRaise
    \/ (CreateFeatures /\ request' \in PipelineRequests)
    \/ PredictCreated
    \/ Respond

SpecTrainedPipeline == Init /\ [][NextTrainedPipeline]_vars

SpecGeocoding ==
    /\ Init
    /\ [][NextGeocoding]_vars
    /\ WF_vars(ReturnFeatures)
    /\ WF_vars(PredictCreated)
    /\ WF_vars(Respond)

----------------------------------------------------------------------------
(* Properties.                                                             *)

\* the thirteen numeric slots, and the keys create_features returns
NumericSlots == {FeatureNames[i] : i \in 1..Len(FeatureNames)}

CreatedKeys == NumericSlots \cup {"state", "district"}

\* a predict call has ended and its outcome is with the caller
Returned_ == result.status = "returned"

AreaPositive == "area_sqft" \in DOMAIN features /\ features["area_sqft"] > 0

\* a step of the try block after the fitted check raises
StepRaises ==
    LET v == FeatureVector(features, feature_names)
    IN  \/ TransformRaises(scaler, v)
        \/ RegressionRaises(model, v)
        \/ "area_sqft" \notin DOMAIN features

\* C1: predict returns a result and never lets an exception through to its
\* caller, whatever the feature mapping and the estimator state.
C1_PredictNeverRaises == result.status # "raised"

\* C2: with an unfitted scaler the heuristic branch produces the outcome;
\* with a fitted scaler the statistical branch does, unless one of its steps
\* raises, and then the outcome is the one _heuristic_prediction has for
\* the same mapping.
C2_Dispatch ==
    result.status # "none" =>
        /\ ~ScalerFitted(scaler) => result = HeuristicPrediction(features)
        /\ ScalerFitted(scaler) /\ StepRaises
              => result = HeuristicPrediction(features)
        /\ ScalerFitted(scaler) /\ ~StepRaises
              => /\ result.status = "returned"
                 /\ result.price =
                      Regression(model,
                          Transform(scaler, FeatureVector(features, feature_names)))
                 /\ result.factors = AnalyzeFactors(features)
                 /\ "note" \notin DOMAIN result.factors

\* C2's case: the scaler is fitted, scaling raises, the heuristic result is
\* returned
C2_Witness ==
    /\ Returned_
    /\ ScalerFitted(scaler)
    /\ TransformRaises(scaler, FeatureVector(features, feature_names))
    /\ "note" \in DOMAIN result.factors

\* C3: for a trained estimator (scaler and forest fitted, the artifacts of
\* train.py included) every result has its confidence in [0.70, 0.95] and
\* the interval [0.85 * price, 1.15 * price].
C3_TrainedBounds ==
    Returned_ /\ ScalerFitted(scaler) /\ model.fitted =>
        /\ result.confidence >= 70
        /\ result.confidence <= 95
        /\ 20 * result.price_min = 17 * result.price
        /\ 20 * result.price_max = 23 * result.price

\* C4: for an untrained estimator every result has confidence 0.60,
\* price_min = 0.8 * price and price_max = 1.2 * price.
C4_UntrainedHeuristic ==
    Returned_ /\ ~ScalerFitted(scaler) =>
        /\ result.confidence = 60
        /\ 10 * result.price_min = 8 * result.price
        /\ 10 * result.price_max = 12 * result.price

\* C4's case: an untrained estimator returned a price
C4_Witness == Returned_ /\ ~ScalerFitted(scaler) /\ result.price > 0

C6_RaiseIsFallback ==
    request # NoRequest /\ gmaps /\ GeoRaises(geo) =>
        /\ features = CreateFeaturesOutcome(FALSE, request, NoGeo)
        /\ features["distance_to_city"] =
              LET c == CityCenter(request.at[1], request.at[2], request.district)
              IN  HaversineDistance(request.at[1], request.at[2], c[1], c[2])
        /\ features["distance_to_highway"] = 500
        /\ features["distance_to_metro"] = 1000
        /\ features["distance_to_school"] = 200
        /\ features["distance_to_hospital"] = 300

\* C6's case: the driving distance and a school were obtained, then the
\* hospital search raised
C6_Witness ==
    /\ request # NoRequest
    /\ gmaps
    /\ geo.matrix.kind = "ok"
    /\ geo.school.kind = "found"
    /\ geo.hospital.kind = "raises"
    /\ request.district = "Ernakulam"

\* C7: in both branches, for area_sqft > 0, price_per_sqft * area_sqft is
\* the price.
C7_PricePerSqft ==
    Returned_ /\ AreaPositive =>
        result.price_per_sqft.num * features["area_sqft"]
            = result.price * result.price_per_sqft.den

\* C7's case: the statistical branch returned a price for a positive area
C7_Witness ==
    /\ Returned_
    /\ AreaPositive
    /\ "note" \notin DOMAIN result.factors
    /\ result.price > 0

\* C8: every result for area_sqft > 0 has price >= 0, price_per_sqft >= 0,
\* 0 <= confidence <= 1 and price_min <= price <= price_max.
C8_ResultRanges ==
    Returned_ /\ AreaPositive =>
        /\ result.price >= 0
        /\ result.price_per_sqft.num >= 0
        /\ result.confidence >= 0
        /\ result.confidence <= 100
        /\ result.price_min <= result.price
        /\ result.price <= result.price_max

\* C9: a predict call leaves model, scaler and feature_names as they were,
\* in every branch, so its outcome is the one a first call on this state
\* has for the mapping.
C9_PredictReadOnly ==
    [][result = NoResult /\ result' # NoResult =>
          /\ estimator' = estimator
          /\ result' = PredictOutcome(model', scaler', feature_names', features')]_vars

\* C9's case: predict took the exception fallback of a fitted estimator
C9_Witness ==
    /\ result.status # "none"
    /\ ScalerFitted(scaler)
    /\ StepRaises

\* C10: whenever predict can run, the scaler and the forest are both fitted
\* or both unfitted.
C10_NoPartialFit == trainPc = "idle" => (ScalerFitted(scaler) <=> model.fitted)

\* C11: every create_features call eventually returns a feature mapping,
\* also when the geocoder never answers.
C11_EventuallyReturns == Creating ~> (features # EmptyDict)

\* the request of Test 1 of test_predictions.py, lines 9-20
ChennaiRequest ==
    [area_sqft |-> 1000, at |-> <<130827, 802707>>, district |-> "Chennai",
     state |-> "Tamil Nadu", land_type |-> "RESIDENTIAL", road_width |-> {},
     electricity |-> TRUE, water_supply |-> TRUE]

\* the heuristic branch returned
Heuristic == Returned_ /\ "note" \in DOMAIN result.factors

\* C12: the heuristic price_per_sqft is the base times 1.3 if
\* distance_to_city < 5, times 1.2 if distance_to_metro < 2, times 1.1 if
\* electricity and water_supply are both true, each applied whatever the
\* others, and the price is price_per_sqft * area_sqft; the Chennai request
\* through the pipeline with no geocoder and an untrained estimator gives
\* price_per_sqft 5720, price 5,720,000, confidence 0.60.
C12_HeuristicFormula ==
    /\ Heuristic =>
         LET city  == IF Get(features, "distance_to_city", 10000) < 500
                      THEN 13 ELSE 10
             metro == IF Get(features, "distance_to_metro", 10000) < 200
                      THEN 12 ELSE 10
             infra == IF Truthy(features, "electricity")
                         /\ Truthy(features, "water_supply")
                      THEN 11 ELSE 10
         IN  /\ result.price_per_sqft.den = 1
             /\ 1000 * result.price_per_sqft.num
                  = HeuristicBase(features) * city * metro * infra
             /\ result.price
                  = result.price_per_sqft.num * features["area_sqft"]
    /\ (request = ChennaiRequest /\ ~gmaps /\ ~ScalerFitted(scaler)
            /\ result # NoResult) =>
         /\ Returned_
         /\ result.price_per_sqft = [num |-> 57200, den |-> 1]
         /\ result.price = 57200000
         /\ result.confidence = 60

\* C12's case: the Chennai request went through the pipeline with no
\* geocoder and an untrained estimator
C12_Witness ==
    /\ request = ChennaiRequest
    /\ ~gmaps
    /\ ~ScalerFitted(scaler)
    /\ Heuristic

\* the (state, district) entries of the heuristic table and of the Feature
\* Engineer's table
HeuristicEntries ==
    {<<"Kerala", "Ernakulam">>, <<"Kerala", "Thiruvananthapuram">>,
     <<"Kerala", "Kozhikode">>, <<"Karnataka", "Bangalore">>,
     <<"Karnataka", "Mysore">>, <<"Tamil Nadu", "Chennai">>,
     <<"Tamil Nadu", "Coimbatore">>}

AvgPriceEntries ==
    {<<"Kerala", "Ernakulam">>, <<"Kerala", "Thiruvananthapuram">>,
     <<"Kerala", "Kozhikode">>, <<"Karnataka", "Bangalore">>,
     <<"Tamil Nadu", "Chennai">>}

\* the product of the heuristic adjustments of a mapping, in thousandths
Adjustments ==
    (IF Get(features, "distance_to_city", 10000) < 500 THEN 13 ELSE 10)
    * (IF Get(features, "distance_to_metro", 10000) < 200 THEN 12 ELSE 10)
    * (IF Truthy(features, "electricity") /\ Truthy(features, "water_supply")
       THEN 11 ELSE 10)

\* C13: avg_price_in_area is 2000 for every (state, district) that is not
\* in the Feature Engineer's table, and the heuristic base price is 2000
\* for every mapping whose (state, district) is not an entry of the
\* heuristic table, a mapping with no state or district included.
C13_UnmappedDefault ==
    /\ (request # NoRequest /\ features # EmptyDict
            /\ <<request.state, request.district>> \notin AvgPriceEntries) =>
         features["avg_price_in_area"] = 20000
    /\ (Heuristic
            /\ <<Get(features, "state", ""), Get(features, "district", "")>>
                   \notin HeuristicEntries) =>
         1000 * result.price_per_sqft.num = 20000 * Adjustments

\* create_features has returned the mapping of the request being served
Created == request # NoRequest /\ features # EmptyDict

\* C14: in every mapping create_features returns, with no geocoder, with
\* one that answers and with one that fails, distance_to_highway is 5.0 and
\* distance_to_metro is 10.0.
C14_FixedDefaults ==
    Created =>
        /\ Get(features, "distance_to_highway", -1) = 500
        /\ Get(features, "distance_to_metro", -1) = 1000

\* C14's case: a mapping was returned after a geocoding call raised
C14_Witness ==
    /\ Created
    /\ gmaps
    /\ GeoRaises(geo)
    /\ "distance_to_metro" \in DOMAIN features

\* the great-circle distance from the request's point to its city centre
GreatCircle ==
    LET c == CityCenter(request.at[1], request.at[2], request.district)
    IN  HaversineDistance(request.at[1], request.at[2], c[1], c[2])

\* the straight-line distance from the request's point to a place
StraightLine(place) ==
    HaversineDistance(request.at[1], request.at[2], place[1], place[2])

\* C15 as stated: each lookup degrades on its own, whatever the other
\* calls do: a failed or routeless city lookup gives the great-circle
\* distance while the searches determine their slots, an empty school
\* search gives 5.0, an empty hospital search 3.0, and a search that finds
\* a place gives the straight-line distance to the first one.
C15_EachLookupAlone ==
    (Created /\ gmaps) =>
        /\ geo.matrix.kind \in {"raises", "not_ok"} =>
               Get(features, "distance_to_city", -1) = GreatCircle
        /\ geo.school.kind = "empty" =>
               Get(features, "distance_to_school", -1) = 500
        /\ geo.school.kind = "found" =>
               Get(features, "distance_to_school", -1)
                   = StraightLine(geo.school.at)
        /\ geo.hospital.kind = "empty" =>
               Get(features, "distance_to_hospital", -1) = 300
        /\ geo.hospital.kind = "found" =>
               Get(features, "distance_to_hospital", -1)
                   = StraightLine(geo.hospital.at)

\* C15, amended: when no call raises each lookup degrades on its own (city
\* lookup not OK: great-circle distance, OK: the driving distance; empty
\* school search: 5.0; empty hospital search: 3.0; a place found: the
\* straight-line distance to the first one); when any of the three calls
\* raises, all slots are the estimates: great-circle distance, school 2.0,
\* hospital 3.0, whatever the other calls return.
C15_DegradeUnlessRaised ==
    (Created /\ gmaps) =>
        IF GeoRaises(geo)
        THEN /\ Get(features, "distance_to_city", -1) = GreatCircle
             /\ Get(features, "distance_to_school", -1) = 200
             /\ Get(features, "distance_to_hospital", -1) = 300
        ELSE /\ geo.matrix.kind = "not_ok" =>
                    Get(features, "distance_to_city", -1) = GreatCircle
             /\ geo.matrix.kind = "ok" =>
                    100 * Get(features, "distance_to_city", -1)
                        = 10 * geo.matrix.metres
             /\ geo.school.kind = "empty" =>
                    Get(features, "distance_to_school", -1) = 500
             /\ geo.school.kind = "found" =>
                    Get(features, "distance_to_school", -1)
                        = StraightLine(geo.school.at)
             /\ geo.hospital.kind = "empty" =>
                    Get(features, "distance_to_hospital", -1) = 300
             /\ geo.hospital.kind = "found" =>
                    Get(features, "distance_to_hospital", -1)
                        = StraightLine(geo.hospital.at)

\* C15's case: the city lookup returned no route, the school search found
\* nothing and the hospital search found a place
C15_Witness ==
    /\ Created
    /\ gmaps
    /\ geo.matrix.kind = "not_ok"
    /\ geo.school.kind = "empty"
    /\ geo.hospital.kind = "found"
    /\ Get(features, "distance_to_school", -1) = 500

\* the statistical branch returned
Statistical == Returned_ /\ "note" \notin DOMAIN result.factors

\* C16: in the statistical branch the location label is high_value_area
\* for distance_to_city < 5, moderate_area from 5 to 15 inclusive and
\* peripheral_area above 15, a missing distance counting as far away;
\* metro_access = excellent is present iff distance_to_metro < 2;
\* infrastructure = well_developed is present iff electricity and
\* water_supply are both true.
C16_FactorLabels ==
    Statistical =>
        LET city == Get(features, "distance_to_city", 10000)
        IN  /\ Get(result.factors, "location", "") =
                  (IF city < 500 THEN "high_value_area"
                   ELSE IF city <= 1500 THEN "moderate_area"
                   ELSE "peripheral_area")
            /\ "metro_access" \in DOMAIN result.factors
                  <=> Get(features, "distance_to_metro", 10000) < 200
            /\ Get(result.factors, "metro_access", "excellent") = "excellent"
            /\ "infrastructure" \in DOMAIN result.factors
                  <=> (Truthy(features, "electricity")
                         /\ Truthy(features, "water_supply"))
            /\ Get(result.factors, "infrastructure", "well_developed")
                  = "well_developed"

\* C17: create_features copies area, latitude and longitude; the land-type
\* code is 1/2/3/4 for RESIDENTIAL/COMMERCIAL/AGRICULTURAL/INDUSTRIAL and 1
\* for any other string; the road_width slot is the supplied road width
\* whenever one is supplied, 0 included, and 6.0 only when it is absent;
\* the electricity and water flags are 1 for true and 0 otherwise.
C17_DirectSlots ==
    Created =>
        /\ Get(features, "area_sqft", -1) = request.area_sqft
        /\ Get(features, "latitude", -1) = request.at[1]
        /\ Get(features, "longitude", -1) = request.at[2]
        /\ Get(features, "land_type_encoded", -1) =
              (CASE request.land_type = "RESIDENTIAL" -> 1
                 [] request.land_type = "COMMERCIAL" -> 2
                 [] request.land_type = "AGRICULTURAL" -> 3
                 [] request.land_type = "INDUSTRIAL" -> 4
                 [] OTHER -> 1)
        /\ \A w \in request.road_width : Get(features, "road_width", -1) = w
        /\ request.road_width = {} => Get(features, "road_width", -1) = 600
        /\ Get(features, "electricity", -1)
              = (IF request.electricity THEN 1 ELSE 0)
        /\ Get(features, "water_supply", -1)
              = (IF request.water_supply THEN 1 ELSE 0)

\* the estimator state is the pair of artifacts train.py persists
OfflineLoaded ==
    /\ model \in {FitForest(NewForest, d) : d \in OfflineDatasets}
    /\ scaler \in {FitScaler(d) : d \in OfflineDatasets}

C19_MetroNeverNear ==
    Created =>
        /\ Get(features, "distance_to_metro", -1) >= 200
        /\ Returned_ => "metro_access" \notin DOMAIN result.factors
        /\ Heuristic =>
              /\ result.price_per_sqft.den = 1
              /\ \E m \in {1000, 1100, 1300, 1430} :
                    1000 * result.price_per_sqft.num
                        = HeuristicBase(features) * m

\* C19's case: the statistical branch labelled a mapping of create_features
\* that is near its city centre
C19_Witness ==
    /\ Created
    /\ Statistical
    /\ Get(result.factors, "location", "") = "high_value_area"

\* C20: after construction is_loaded() is true in every reachable state,
\* with or without persisted artifacts, also while the estimator is
\* untrained and predict takes the heuristic branch.
C20_AlwaysLoaded == is_loaded

\* C20's case: predict returned the heuristic result on an untrained
\* estimator and is_loaded() is true
C20_Witness ==
    /\ is_loaded
    /\ ~ScalerFitted(scaler)
    /\ ~model.fitted
    /\ Heuristic

====
